---- MODULE Spec2Model ----
(***************************************************************************)
(* Model of vmware_fixed_addresses.py: the dhcpd.conf parser, the          *)
(* networking-file typing, the free sub-network search and the address     *)
(* assignment loop of main().                                              *)
(*                                                                         *)
(* Addresses are AddrBits-bit integers (ipaddress uses 32 for IPv4); a     *)
(* network is a record [addr, plen] with addr aligned to its prefix.       *)
(***************************************************************************)
EXTENDS Integers, Sequences, FiniteSets, TLC

\* Address width of the model (network.max_prefixlen; 32 for IPv4).
AddrBits == 4

\* Largest reserved set handed to find_subnet in the search specification.
MaxReserved == 2

max_prefixlen == AddrBits

AllOnes == 2^AddrBits - 1

Addresses == 0..AllOnes

\* ip_network values: every aligned block of the address space.
Networks ==
    { [addr |-> a, plen |-> p] : a \in Addresses, p \in 0..max_prefixlen }
        \cap { n \in [addr : Addresses, plen : 0..max_prefixlen] :
                 n.addr % (2^(max_prefixlen - n.plen)) = 0 }

\* The value find_subnet returns when it falls off the end of its loops.
NoSubnet == [addr |-> -1, plen |-> -1]

num_addresses(n) == 2^(max_prefixlen - n.plen)

network_address(n) == n.addr

broadcast_address(n) == n.addr + num_addresses(n) - 1

\* _BaseNetwork.__contains__ for an address of the same version.
Contains(n, a) == network_address(n) <= a /\ a <= broadcast_address(n)

\* _BaseNetwork.overlaps, buggy variant: only the other's first address is tested.
overlaps_first_only(self, other) == Contains(self, network_address(other))

\* _BaseNetwork.overlaps(other), as ipaddress computes it.
overlaps(self, other) ==
    \/ Contains(self, network_address(other))
    \/ Contains(self, broadcast_address(other))
    \/ Contains(other, network_address(self))
    \/ Contains(other, broadcast_address(self))

\* network.subnets(new_prefix=p): the sub-networks in increasing address order.
subnets(network, new_prefix) ==
    [ i \in 1..(2^(new_prefix - network.plen)) |->
        [addr |-> network.addr + (i - 1) * 2^(max_prefixlen - new_prefix),
         plen |-> new_prefix] ]

\* The inner loop of find_subnet: first sub-network from index i on that
\* overlaps no reserved entry, or NoSubnet.
RECURSIVE first_free(_, _, _)
first_free(subs, i, reserved) ==
    IF i > Len(subs) THEN NoSubnet
    ELSE IF \A x \in reserved : ~overlaps(subs[i], x) THEN subs[i]
    ELSE first_free(subs, i + 1, reserved)

\* The outer loop of find_subnet over range(prefix_len, stop).
RECURSIVE find_from(_, _, _, _)
find_from(network, reserved, prefix_len, stop) ==
    IF prefix_len >= stop THEN NoSubnet
    ELSE LET hit == first_free(subnets(network, prefix_len), 1, reserved)
         IN  IF hit # NoSubnet THEN hit
             ELSE find_from(network, reserved, prefix_len + 1, stop)

\* Buggy variant: range(network.prefixlen+1, network.max_prefixlen).
find_subnet_wide(network, reserved) ==
    find_from(network, reserved, network.plen + 1, max_prefixlen)


\* find_subnet(network, reserved): range(network.prefixlen+1, network.max_prefixlen-1).
find_subnet(network, reserved) ==
    find_from(network, reserved, network.plen + 1, max_prefixlen - 1)

\* Value of a key that a Python dict does not hold / of `section` when None.
None == "None"

\* A whitespace-separated token of a statement line: a word, or (w = "addr")
\* the text of address a; q tells whether the text is wrapped in double quotes.
Word(w) == [w |-> w, a |-> -1, q |-> FALSE]

Quoted(w) == [w |-> w, a |-> -1, q |-> TRUE]

Addr(a) == [w |-> "addr", a |-> a, q |-> FALSE]

\* A line of dhcpd.conf after rstrip(), by the regular expression it matches:
\* "section" (re_section['subnet'], with its net and mask groups), "line"
\* (re_line, with line.strip().rstrip(";").split() as parts), "end" (re_end),
\* "other" (none of them: comments, blank lines, `host x {`, ...).
SectionLine(net, mask) == [cls |-> "section", net |-> net, mask |-> mask, parts |-> <<>>]

StmtLine(parts) == [cls |-> "line", net |-> 0, mask |-> 0, parts |-> parts]

EndLine == [cls |-> "end", net |-> 0, mask |-> 0, parts |-> <<>>]

OtherLine(w) == [cls |-> "other", net |-> 0, mask |-> 0, parts |-> <<Word(w)>>]

\* The mask text of a prefix length, as a dotted netmask (here: its integer).
NetmaskOf(plen) == AllOnes - (2^(max_prefixlen - plen) - 1)

\* _prefix_from_ip_int: the prefix length of a netmask, -1 when it raises.
prefix_from_ip_int(ip_int) ==
    IF \E p \in 0..max_prefixlen : NetmaskOf(p) = ip_int
    THEN CHOOSE p \in 0..max_prefixlen : NetmaskOf(p) = ip_int
    ELSE -1

\* _make_netmask for a dotted mask: a netmask first, else a hostmask, else -1.
make_netmask(mask) ==
    IF mask \notin Addresses THEN -1
    ELSE IF prefix_from_ip_int(mask) # -1 THEN prefix_from_ip_int(mask)
    ELSE prefix_from_ip_int(AllOnes - mask)

\* ipaddress.ip_network((net, mask)) raises ValueError: bad address, bad
\* mask, or host bits set (strict).
ip_network_raises(net, mask) ==
    \/ net \notin Addresses
    \/ make_netmask(mask) = -1
    \/ net % (2^(max_prefixlen - make_netmask(mask))) # 0

\* ipaddress.ip_network((net, mask)) when it does not raise.
ip_network_pair(net, mask) == [addr |-> net, plen |-> make_netmask(mask)]

\* ipaddress.ip_address(tok) / ip_network(tok) accept the token.
is_address(tok) == tok.w = "addr" /\ tok.a \in Addresses

\* ipaddress.ip_network(tok) for a single address: the full-prefix network.
ip_network_single(tok) == [addr |-> tok.a, plen |-> max_prefixlen]

\* _count_righthand_zero_bits(number, bits).
RECURSIVE count_righthand_zero_bits(_, _)
count_righthand_zero_bits(number, bits) ==
    IF number = 0 THEN bits
    ELSE IF bits = 0 \/ number % 2 = 1 THEN 0
    ELSE 1 + count_righthand_zero_bits(number \div 2, bits - 1)

\* int.bit_length().
RECURSIVE bit_length(_)
bit_length(n) == IF n = 0 THEN 0 ELSE 1 + bit_length(n \div 2)

Min(a, b) == IF a <= b THEN a ELSE b

\* ipaddress.summarize_address_range(first, last) for first <= last: the
\* networks the generator yields.
RECURSIVE summarize_address_range(_, _)
summarize_address_range(first, last) ==
    IF first > last THEN {}
    ELSE LET nbits == Min(count_righthand_zero_bits(first, max_prefixlen),
                          bit_length(last - first + 1) - 1)
             net == [addr |-> first, plen |-> max_prefixlen - nbits]
             next == first + 2^nbits
         IN  IF next - 1 = AllOnes THEN {net}
             ELSE {net} \cup summarize_address_range(next, last)

\* The longest prefix of toks that ip_network accepts, as networks: what
\* set.update has added when the generator raises (or ends).
RECURSIVE networks_until_bad(_)
networks_until_bad(toks) ==
    IF toks = <<>> \/ ~is_address(Head(toks)) THEN {}
    ELSE {ip_network_single(Head(toks))} \cup networks_until_bad(Tail(toks))

\* str.strip('"') of a token's text.
strip_quotes(tok) == tok.w

\* results of parse_dhcpd_conf: {} or {"subnet": mdict}.
NoResults == [k \in {} |-> None]

HasSubnet(results) == "subnet" \in DOMAIN results

\* The state of parse_dhcpd_conf's loop: section, results and the exception
\* that ended it ("" while none was raised).
ParserStart == [section |-> None, results |-> NoResults, error |-> ""]

Raise(st, exc) == [st EXCEPT !.error = exc]

ReservingOptions ==
    {"broadcast-address", "domain-name-servers", "netbios-name-servers", "routers"}

\* Lines 106-115: at top level only a section header is looked for.
parse_top(st, line) ==
    IF line.cls # "section" THEN st
    ELSE IF ip_network_raises(line.net, line.mask) THEN Raise(st, "ValueError")
    ELSE [st EXCEPT
            !.section = "subnet",
            !.results = ("subnet" :>
                [net |-> line.net, mask |-> line.mask,
                 network |-> ip_network_pair(line.net, line.mask),
                 reserved |-> {}, domain |-> None]) @@ @]

\* Lines 120-126: the `range` statement.
parse_range(st, parts) ==
    IF Len(parts) < 2 THEN Raise(st, "IndexError")
    ELSE IF ~is_address(parts[2]) THEN Raise(st, "ValueError")
    ELSE IF Len(parts) < 3 THEN Raise(st, "IndexError")
    ELSE IF ~is_address(parts[3]) THEN Raise(st, "ValueError")
    ELSE IF parts[2].a > parts[3].a THEN Raise(st, "ValueError")
    ELSE [st EXCEPT !.results.subnet.reserved =
            @ \cup summarize_address_range(parts[2].a, parts[3].a)]

\* Lines 127-133: the `option` statement.
parse_option(st, parts) ==
    IF Len(parts) < 2 THEN Raise(st, "IndexError")
    ELSE IF parts[2].w \in ReservingOptions
    THEN LET operands == SubSeq(parts, 3, Len(parts))
             added == [st EXCEPT !.results.subnet.reserved =
                         @ \cup networks_until_bad(operands)]
         IN  IF \E i \in 1..Len(operands) : ~is_address(operands[i])
             THEN Raise(added, "ValueError")
             ELSE added
    ELSE IF parts[2].w = "domain-name"
    THEN IF Len(parts) < 3 THEN Raise(st, "IndexError")
         ELSE [st EXCEPT !.results.subnet.domain = strip_quotes(parts[3])]
    ELSE st


\* Lines 117-136: a line matching re_line inside the subnet section.
parse_statement(st, parts) ==
    IF Len(parts) = 0 THEN Raise(st, "IndexError")
    ELSE IF parts[1].w = "range" THEN parse_range(st, parts)
    ELSE IF parts[1].w = "option" THEN parse_option(st, parts)
    ELSE st

\* Buggy variant of the loop body: statements are applied at top level too
\* (whenever a subnet was seen) and `}` does not leave the section.
parse_step_unscoped(st, line) ==
    IF st.section = None /\ line.cls = "section" THEN parse_top(st, line)
    ELSE IF line.cls = "line" /\ HasSubnet(st.results)
    THEN parse_statement(st, line.parts)
    ELSE st

\* Lines 104-138: the body of `for line in stream`.
parse_step(st, line) ==
    IF st.section = None THEN parse_top(st, line)
    ELSE IF line.cls = "line" THEN parse_statement(st, line.parts)
    ELSE IF line.cls = "end" THEN [st EXCEPT !.section = None]
    ELSE st

\* parse_dhcpd_conf(stream): the loop from state st over lines, stopping
\* at the first exception.
RECURSIVE parse_lines(_, _)
parse_lines(st, lines) ==
    IF lines = <<>> \/ st.error # "" THEN st
    ELSE parse_lines(parse_step(st, Head(lines)), Tail(lines))

parse_dhcpd_conf(stream) == parse_lines(ParserStart, stream)

\* ---------------------------------------------------------------------
\* Typed values, string order, the networking file and the VMX files.
\* ---------------------------------------------------------------------

\* A typed Python value: bool, int, UUID, or the raw text (a token).
PyBool(b) == [t |-> "bool", b |-> b, v |-> Word("")]

PyInt(tok) == [t |-> "int", b |-> FALSE, v |-> tok]

PyUUID(tok) == [t |-> "uuid", b |-> FALSE, v |-> tok]

PyStr(tok) == [t |-> "str", b |-> FALSE, v |-> tok]

\* `value is True`.
IsTrue(val) == val.t = "bool" /\ val.b

\* The strings the program sorts, in Python's (code point) order.
StrOrder ==
    << "alpha", "beta", "conn", "delta", "dev", "displayName", "ethernet0",
       "ethernet1", "gamma", "net", "scsi0", "vmnet1", "vmnet8" >>

StrRank(str) == CHOOSE i \in 1..Len(StrOrder) : StrOrder[i] = str

\* str.__lt__.
StrLess(x, y) == StrRank(x) < StrRank(y)

\* sorted(keys): ascending order of a set of strings.
RECURSIVE SortedKeys(_)
SortedKeys(S) ==
    IF S = {} THEN <<>>
    ELSE LET least == CHOOSE x \in S : \A y \in S : x = y \/ StrLess(x, y)
         IN  <<least>> \o SortedKeys(S \ {least})

\* str.lower() on the texts of the model.
Lower(str) ==
    CASE str = "DHCP" -> "dhcp"
      [] str = "NAT" -> "nat"
      [] str = "VIRTUAL_ADAPTER" -> "virtual_adapter"
      [] str = "HOSTONLY_NETMASK" -> "hostonly_netmask"
      [] str = "HOSTONLY_SUBNET" -> "hostonly_subnet"
      [] str = "00:0C:29:AA:BB:CC" -> "00:0c:29:aa:bb:cc"
      [] str = "00:0C:29:DD:EE:FF" -> "00:0c:29:dd:ee:ff"
      [] OTHER -> str

\* str.startswith("ethernet") on the section names of the model.
StartsWithEthernet(str) == str \in {"ethernet0", "ethernet1"}

\* NETWORKS (lines 48-51).
NETWORKS == ("hostonly" :> "vmnet1") @@ ("nat" :> "vmnet8")

EmptyDict == [k \in {} |-> None]

\* A line of the networking file: cls "answer" when re_answer matches, with
\* its num, key and value groups.
AnswerLine(num, key, value) == [cls |-> "answer", num |-> num, key |-> key, value |-> value]

NoAnswerLine == [cls |-> "other", num |-> 0, key |-> "", value |-> Word("")]

\* "vmnet{}".format(num).
VmnetName(num) == IF num = 1 THEN "vmnet1" ELSE "vmnet8"

\* Lines 196-200: the typing of an answer value.
answer_value(value) ==
    IF value.w = "yes" THEN PyBool(TRUE)
    ELSE IF value.w = "no" THEN PyBool(FALSE)
    ELSE PyStr(value)


\* Lines 188-202: the loop of parse_networking. ret is [order, d]: the keys
\* in insertion order and the dict of dicts.
RECURSIVE parse_answers(_, _)
parse_answers(ret, lines) ==
    IF lines = <<>> THEN ret
    ELSE LET line == Head(lines)
             vmnet == VmnetName(line.num)
             old == IF vmnet \in DOMAIN ret.d THEN ret.d[vmnet] ELSE EmptyDict
             info == (Lower(line.key) :> answer_value(line.value)) @@ old
         IN  IF line.cls # "answer" THEN parse_answers(ret, Tail(lines))
             ELSE parse_answers(
                    [order |-> IF vmnet \in DOMAIN ret.d THEN ret.order
                               ELSE Append(ret.order, vmnet),
                     d |-> (vmnet :> info) @@ ret.d],
                    Tail(lines))

HasNetworkKeys(info) ==
    "hostonly_netmask" \in DOMAIN info /\ "hostonly_subnet" \in DOMAIN info

\* ip_network((info['hostonly_subnet'], info['hostonly_netmask'])) raises.
info_network_raises(info) ==
    \/ info["hostonly_subnet"].t # "str"
    \/ info["hostonly_netmask"].t # "str"
    \/ ip_network_raises(info["hostonly_subnet"].v.a, info["hostonly_netmask"].v.a)

\* Lines 205-207: the network object of one info dict.
add_network(info) ==
    IF HasNetworkKeys(info)
    THEN ("network" :> ip_network_pair(info["hostonly_subnet"].v.a,
                                       info["hostonly_netmask"].v.a)) @@ info
    ELSE info

\* parse_networking(stream): [order, d, error].
parse_networking(stream) ==
    LET ret == parse_answers([order |-> <<>>, d |-> EmptyDict], stream)
    IN  IF \E k \in DOMAIN ret.d : HasNetworkKeys(ret.d[k]) /\ info_network_raises(ret.d[k])
        THEN [order |-> ret.order, d |-> ret.d, error |-> "ValueError"]
        ELSE [order |-> ret.order,
              d |-> [k \in DOMAIN ret.d |-> add_network(ret.d[k])],
              error |-> ""]

\* A line of a VMX file: cls "kv" when re_eth matches, with its section
\* (None without a dot prefix), key and value groups.
VmxLine(section, key, value) == [cls |-> "kv", section |-> section, key |-> key, value |-> value]

VmxNoise == [cls |-> "other", section |-> None, key |-> "", value |-> ""]

\* int(value, 10) succeeds on these texts of the model.
IsDecimal(str) == str \in {"2048", "-1", "4"}

\* Lines 157-172: the typing of a VMX value.
vmx_value(section, value, parse_uuid) ==
    IF value = "TRUE" THEN PyBool(TRUE)
    ELSE IF value = "FALSE" THEN PyBool(FALSE)
    ELSE IF section = "uuid" /\ parse_uuid THEN PyUUID(Word(value))
    ELSE IF IsDecimal(value) THEN PyInt(Word(value))
    ELSE PyStr(Word(value))

\* Lines 148-180: the loop of parse_vmx over the lines of one file.
RECURSIVE parse_vmx_lines(_, _, _)
parse_vmx_lines(sections, lines, parse_uuid) ==
    IF lines = <<>> THEN sections
    ELSE LET line == Head(lines)
             value == vmx_value(line.section, line.value, parse_uuid)
             old == IF line.section \in DOMAIN sections THEN sections[line.section]
                    ELSE EmptyDict
         IN  IF line.cls # "kv" THEN parse_vmx_lines(sections, Tail(lines), parse_uuid)
             ELSE IF line.section = None
             THEN parse_vmx_lines((line.key :> value) @@ sections, Tail(lines), parse_uuid)
             ELSE parse_vmx_lines((line.section :> ((line.key :> value) @@ old)) @@ sections,
                                  Tail(lines), parse_uuid)

parse_vmx(stream, parse_uuid) == parse_vmx_lines(EmptyDict, stream, parse_uuid)

\* VirtualMachine.__init__ (lines 73-80) on a file [stem, lines]: stem is
\* os.path.splitext(os.path.basename(vmx_path))[0].
VirtualMachine(file) ==
    LET info == parse_vmx(file.lines, TRUE)
    IN  [vmx_path |-> file.path,
         info |-> info,
         hostname |-> IF "displayName" \in DOMAIN info THEN info["displayName"].v.w
                      ELSE file.stem]

\* ---------------------------------------------------------------------
\* main(): the loop bodies as operators.
\* ---------------------------------------------------------------------

NoError == [exc |-> "", at |-> ""]

\* Lines 240-258: one iteration of the loop over networks.items(), given
\* the lines of the network's dhcpd.conf. Returns the info dict as it is
\* left, the exception raised (if any), the log records written and
\* whether the dhcpd.conf was opened.
process_network(vmnet, info, conf) ==
    LET ret == parse_dhcpd_conf(conf)
        out(i, exc, log, opened) ==
            [info |-> i, exc |-> exc, log |-> log, opened |-> opened]
    IN  IF "dhcp" \notin DOMAIN info THEN out(info, "KeyError", {}, FALSE)
        ELSE IF ~IsTrue(info["dhcp"])
        THEN out(info, "", {[level |-> "DEBUG", about |-> vmnet]}, FALSE)
        ELSE IF ret.error # "" THEN out(info, ret.error, {}, TRUE)
        ELSE IF ~HasSubnet(ret.results) THEN out(info, "KeyError", {}, TRUE)
        ELSE LET dhcp_net == ret.results["subnet"].network
                 reserved == ret.results["subnet"].reserved
                 domain == IF ret.results["subnet"].domain # None
                           THEN ret.results["subnet"].domain ELSE "localdomain"
                 info1 == ("domain" :> domain) @@ info
             IN  IF "network" \notin DOMAIN info THEN out(info1, "KeyError", {}, TRUE)
                 ELSE IF info["network"] # dhcp_net
                      \* line 253: the name `net` is not defined in main()
                 THEN out(info1, "NameError", {}, TRUE)
                 ELSE out(("network_fixed" :> find_subnet(dhcp_net, reserved)) @@ info1,
                          "", {}, TRUE)

\* list.sort's insertion of index i into an already sorted list of indices
\* into vms: after every element whose hostname is not greater (stable).
RECURSIVE insert_sorted(_, _, _)
insert_sorted(vms, sorted, i) ==
    IF sorted = <<>> THEN <<i>>
    ELSE IF StrLess(vms[i].hostname, vms[Head(sorted)].hostname)
    THEN <<i>> \o sorted
    ELSE <<Head(sorted)>> \o insert_sorted(vms, Tail(sorted), i)

RECURSIVE sort_from(_, _, _)
sort_from(vms, sorted, i) ==
    IF i > Len(vms) THEN sorted
    ELSE sort_from(vms, insert_sorted(vms, sorted, i), i + 1)

\* Buggy variant: the VMs are taken in the order glob returned them.
sorted_vms_unsorted(vms) == [i \in 1..Len(vms) |-> i]

\* sorted(vms, key=lambda x: x.hostname) (line 268), as indices into vms.
sorted_vms(vms) == sort_from(vms, <<>>, 1)

\* Lines 268-269: the (vm, section) pairs in the order the nested loops
\* visit them.
RECURSIVE loop_items(_, _)
loop_items(vms, order) ==
    IF order = <<>> THEN <<>>
    ELSE LET keys == SortedKeys(DOMAIN vms[Head(order)].info)
         IN  [k \in 1..Len(keys) |-> [vm |-> Head(order), section |-> keys[k]]]
                 \o loop_items(vms, Tail(order))

\* Buggy variant of the subscript: the index wraps around the block.
getitem_wrapping(network, n) ==
    IF network = NoSubnet THEN [exc |-> "TypeError", ip |-> -1]
    ELSE [exc |-> "", ip |-> network_address(network) + (n % num_addresses(network))]

\* Buggy variant of the subscript: the counter is not offset into the block.
getitem_no_base(network, n) ==
    IF network = NoSubnet THEN [exc |-> "TypeError", ip |-> -1]
    ELSE IF n >= num_addresses(network) THEN [exc |-> "IndexError", ip |-> -1]
    ELSE [exc |-> "", ip |-> n]

\* network_fixed[n] (line 284): _BaseNetwork.__getitem__ for n >= 0, and
\* the TypeError of subscripting None.
getitem(network, n) ==
    IF network = NoSubnet THEN [exc |-> "TypeError", ip |-> -1]
    ELSE IF network_address(network) + n > broadcast_address(network)
    THEN [exc |-> "IndexError", ip |-> -1]
    ELSE [exc |-> "", ip |-> network_address(network) + n]

\* VirtualMachine.dhcpd_static_block (lines 82-84): the rendered stanza;
\* extra is the key=value pairs sorted by key.
dhcpd_static_block(self, ip, mac, extra) ==
    LET keys == SortedKeys(DOMAIN extra)
    IN  [line |-> "host", host |-> self.hostname, mac |-> mac, ip |-> ip,
         extra |-> [k \in 1..Len(keys) |-> <<keys[k], extra[keys[k]]>>],
         now |-> -1, vmnet |-> ""]

\* defaultdict(list).__getitem__.
confs_of(dhcp_confs, vmnet) ==
    IF vmnet \in DOMAIN dhcp_confs THEN dhcp_confs[vmnet] ELSE <<>>

\* Buggy variant of the counter: one counter shared by all networks.
usage_counter_shared(dhcp_confs, vmnet) ==
    LET keys == SortedKeys(DOMAIN dhcp_confs)
    IN  IF keys = <<>> THEN 0
        ELSE IF Len(keys) = 1 THEN Len(dhcp_confs[keys[1]])
        ELSE Len(dhcp_confs[keys[1]]) + Len(dhcp_confs[keys[2]])

\* len(dhcp_confs[vmnet]) (line 284): the usage counter of the network.
usage_counter(dhcp_confs, vmnet) == Len(confs_of(dhcp_confs, vmnet))

\* Lines 270-285: one iteration of the loop over a VM's sections. Returns
\* dhcp_confs as it is left and the exception raised (if any).
process_interface(vm, section, networks, dhcp_confs) ==
    LET info == vm.info[section]
        conn_type == info["connectionType"]
        vmnet == NETWORKS[conn_type.v.w]
        extra == ("conn" :> conn_type.v.w) @@ ("net" :> vmnet) @@ ("dev" :> section)
        touched == (vmnet :> confs_of(dhcp_confs, vmnet)) @@ dhcp_confs
        fixed_ip == getitem(networks[vmnet]["network_fixed"],
                            usage_counter(dhcp_confs, vmnet))
        mac_address == Lower(info["generatedAddress"].v.w)
        out(d, exc) == [dhcp_confs |-> d, exc |-> exc]
    IN  IF ~StartsWithEthernet(section) THEN out(dhcp_confs, "")
        ELSE IF "connectionType" \notin DOMAIN info THEN out(dhcp_confs, "")
        ELSE IF ~(conn_type.t = "str" /\ conn_type.v.w \in DOMAIN NETWORKS)
        THEN out(dhcp_confs, "")
        ELSE IF "generatedAddress" \notin DOMAIN info THEN out(dhcp_confs, "KeyError")
        ELSE IF info["generatedAddress"].t # "str" THEN out(dhcp_confs, "AttributeError")
        ELSE IF vmnet \notin DOMAIN networks THEN out(dhcp_confs, "KeyError")
        ELSE IF "network_fixed" \notin DOMAIN networks[vmnet] THEN out(dhcp_confs, "KeyError")
        ELSE IF fixed_ip.exc # "" THEN out(touched, fixed_ip.exc)
        ELSE out((vmnet :> Append(confs_of(dhcp_confs, vmnet),
                                  dhcpd_static_block(vm, fixed_ip.ip, mac_address, extra)))
                    @@ dhcp_confs, "")

\* Sub-second clock ticks per second: isoformat(timespec="seconds") drops them.
TicksPerSecond == 2

\* datetime.now().isoformat(timespec="seconds") at clock tick t.
isoformat_seconds(t) == t \div TicksPerSecond


\* Line 289: the header printed for one network.
header_line(now, vmnet) ==
    [line |-> "header", host |-> "", mac |-> "", ip |-> -1, extra |-> <<>>,
     now |-> now, vmnet |-> vmnet]

\* Lines 288-291: everything printed, for sorted(dhcp_confs.items()).
RECURSIVE print_configs(_, _, _)
print_configs(now, dhcp_confs, keys) ==
    IF keys = <<>> THEN <<>>
    ELSE <<header_line(now, Head(keys))>> \o dhcp_confs[Head(keys)]
            \o print_configs(now, dhcp_confs, Tail(keys))

\* Longest dhcpd.conf stream fed to the parser in the parser specification.
MaxLines == 4

VARIABLES
    f_network,     \* find_subnet: argument network
    f_reserved,    \* find_subnet: argument reserved
    f_result,      \* find_subnet: returned value
    f_pc,          \* "idle" | "call" | "returned"
    p_stream,      \* parse_dhcpd_conf: the lines consumed so far
    p_state,       \* parse_dhcpd_conf: section, results, raised exception
    p_pc,          \* "idle" | "reading" | "returned" | "raised"
    fs_networking, \* files: the lines of <prefs-dir>/networking
    fs_conf,       \* files: vmnet -> lines of its dhcpd.conf, once it was read
    fs_vmx,        \* files: the VMX files under <vm-dir>, once they were listed
    clock,         \* the wall clock, in ticks
    run,           \* 1 for the first run of main(), 2 for the second
    pc,            \* main: "idle" | "start" | "networks" | "glob" | "assign" | "print" | "done" | "failed"
    networks,      \* main: the dict parse_networking returned
    todo,          \* main: the keys networks.items() has yet to yield
    visited,       \* main: the keys whose iteration has run
    opened,        \* main: the networks whose dhcpd.conf was opened
    log,           \* main: the DEBUG and WARNING records written
    vms,           \* main: the VirtualMachine list, in glob order
    queue,         \* main: the (vm, section) pairs the loops have yet to visit
    dhcp_confs,    \* main: vmnet -> the stanzas rendered so far
    stdout,        \* main: the lines printed
    error,         \* main: the exception that ended the run, and where
    first_run      \* what the first run printed and how it ended

findVars == <<f_network, f_reserved, f_result, f_pc>>

parseVars == <<p_stream, p_state, p_pc>>

fileVars == <<fs_networking, fs_conf, fs_vmx>>

mainVars == <<clock, run, pc, networks, todo, visited, opened, log, vms, queue,
              dhcp_confs, stdout, error, first_run>>

vars == <<findVars, parseVars, fileVars, mainVars>>

FindIdle ==
    /\ f_network = NoSubnet
    /\ f_reserved = {}
    /\ f_result = NoSubnet
    /\ f_pc = "idle"

ParseIdle ==
    /\ p_stream = <<>>
    /\ p_state = ParserStart
    /\ p_pc = "idle"

\* The program state main() starts from.
MainStart ==
    /\ networks = [order |-> <<>>, d |-> EmptyDict]
    /\ todo = <<>>
    /\ visited = {}
    /\ opened = {}
    /\ log = {}
    /\ vms = <<>>
    /\ queue = <<>>
    /\ dhcp_confs = EmptyDict
    /\ stdout = <<>>
    /\ error = NoError

NoFirstRun == [pc |-> "", stdout |-> <<>>, error |-> NoError, vms |-> <<>>]

MainIdle ==
    /\ fs_networking = <<>>
    /\ fs_conf = EmptyDict
    /\ fs_vmx = {}
    /\ clock = 0
    /\ run = 0
    /\ pc = "idle"
    /\ MainStart
    /\ first_run = NoFirstRun

\* The subsets of S with at most k elements.
RECURSIVE SubsetsUpTo(_, _)
SubsetsUpTo(S, k) ==
    IF k = 0 THEN { {} }
    ELSE LET smaller == SubsetsUpTo(S, k - 1)
         IN  smaller \cup { r \cup {x} : r \in smaller, x \in S }

\* Reserved sets of at most MaxReserved networks.
ReservedSets == SubsetsUpTo(Networks, MaxReserved)

InitFind ==
    /\ f_network \in Networks
    /\ f_reserved \in ReservedSets
    /\ f_result = NoSubnet
    /\ f_pc = "call"
    /\ ParseIdle
    /\ MainIdle

CallFindSubnet ==
    /\ f_pc = "call"
    /\ f_result' = find_subnet(f_network, f_reserved)
    /\ f_pc' = "returned"
    /\ UNCHANGED <<f_network, f_reserved, parseVars, fileVars, mainVars>>

NextFind == CallFindSubnet

SpecFind == InitFind /\ [][NextFind]_vars

\* The two lease networks of the examples: the lower and the upper block of
\* eight addresses.
LowNet == [addr |-> 0, plen |-> max_prefixlen - 3]

HighNet == [addr |-> 8, plen |-> max_prefixlen - 3]

\* Lines a dhcpd.conf stream is drawn from: headers, well-formed and
\* malformed statements, the closing line and a block the parser does not know.
ConfLines ==
    { SectionLine(LowNet.addr, NetmaskOf(LowNet.plen)),
      SectionLine(HighNet.addr, NetmaskOf(HighNet.plen)),
      StmtLine(<<Word("range"), Addr(4), Addr(6)>>),
      StmtLine(<<Word("range"), Addr(4)>>),
      StmtLine(<<Word("range"), Word("first"), Addr(6)>>),
      StmtLine(<<Word("option"), Word("routers"), Addr(2)>>),
      StmtLine(<<Word("option"), Word("domain-name-servers"), Addr(3), Word("ns.example")>>),
      StmtLine(<<Word("option"), Word("domain-name"), Quoted("example")>>),
      StmtLine(<<Word("option"), Word("domain-name")>>),
      StmtLine(<<Word("option")>>),
      StmtLine(<<>>),
      StmtLine(<<Word("default-lease-time"), Word("1800")>>),
      EndLine,
      OtherLine("host vmnet8 {") }

InitParse ==
    /\ p_stream = <<>>
    /\ p_state = ParserStart
    /\ p_pc = "reading"
    /\ FindIdle
    /\ MainIdle

\* One iteration of `for line in stream` (lines 103-138).
ReadLine ==
    /\ p_pc = "reading"
    /\ Len(p_stream) < MaxLines
    /\ \E line \in ConfLines :
         /\ p_stream' = Append(p_stream, line)
         /\ p_state' = parse_step(p_state, line)
         /\ p_pc' = IF parse_step(p_state, line).error # "" THEN "raised" ELSE "reading"
    /\ UNCHANGED <<findVars, fileVars, mainVars>>

\* The stream is exhausted: `return results` (line 139).
EndOfStream ==
    /\ p_pc = "reading"
    /\ p_pc' = "returned"
    /\ UNCHANGED <<p_stream, p_state, findVars, fileVars, mainVars>>

NextParse == ReadLine \/ EndOfStream

SpecParse == InitParse /\ [][NextParse]_vars

\* ---------------------------------------------------------------------
\* main(): the files it reads and its steps.
\* ---------------------------------------------------------------------

\* Most VMX files the directory scan returns.
MaxVMs == 3

\* Last tick of the wall clock.
MaxClock == 2

\* The DHCP answers of the networking file: yes, no, another text, or no
\* DHCP line at all.
DhcpAnswers == {"yes", "no", "maybe", "absent"}

\* The networking file for the two DHCP answers: vmnet1 on the lower
\* network, vmnet8 on the upper one.
NetworkingFile(dhcp1, dhcp8) ==
    (IF dhcp1 = "absent" THEN <<>> ELSE <<AnswerLine(1, "DHCP", Word(dhcp1))>>)
    \o << AnswerLine(1, "HOSTONLY_NETMASK", Addr(NetmaskOf(LowNet.plen))),
          AnswerLine(1, "HOSTONLY_SUBNET", Addr(LowNet.addr)),
          AnswerLine(1, "VIRTUAL_ADAPTER", Word("yes")),
          NoAnswerLine >>
    \o (IF dhcp8 = "absent" THEN <<>> ELSE <<AnswerLine(8, "DHCP", Word(dhcp8))>>)
    \o << AnswerLine(8, "HOSTONLY_NETMASK", Addr(NetmaskOf(HighNet.plen))),
          AnswerLine(8, "HOSTONLY_SUBNET", Addr(HighNet.addr)),
          AnswerLine(8, "NAT", Word("yes")) >>

\* dhcpd.conf on the lower network: the pool in its upper half.
ConfLow ==
    << OtherLine("# Configuration file for ISC 2.0 vmnet-dhcpd"),
       SectionLine(LowNet.addr, NetmaskOf(LowNet.plen)),
       StmtLine(<<Word("range"), Addr(4), Addr(6)>>),
       StmtLine(<<Word("option"), Word("broadcast-address"), Addr(7)>>),
       StmtLine(<<Word("option"), Word("domain-name-servers"), Addr(5)>>),
       StmtLine(<<Word("default-lease-time"), Word("1800")>>),
       StmtLine(<<Word("option"), Word("routers"), Addr(5)>>),
       EndLine,
       OtherLine("host vmnet1 {"),
       StmtLine(<<Word("option"), Word("routers"), Addr(0)>>),
       EndLine >>

\* dhcpd.conf on the lower network whose pool is the whole network.
ConfLowFull ==
    << SectionLine(LowNet.addr, NetmaskOf(LowNet.plen)),
       StmtLine(<<Word("range"), Addr(0), Addr(7)>>),
       EndLine >>

\* dhcpd.conf on the upper network, with a domain name.
ConfHigh ==
    << SectionLine(HighNet.addr, NetmaskOf(HighNet.plen)),
       StmtLine(<<Word("range"), Addr(12), Addr(14)>>),
       StmtLine(<<Word("option"), Word("broadcast-address"), Addr(15)>>),
       StmtLine(<<Word("option"), Word("domain-name"), Quoted("example")>>),
       StmtLine(<<Word("option"), Word("routers"), Addr(13)>>),
       EndLine >>

\* dhcpd.conf without a subnet block.
ConfNoSubnet ==
    << OtherLine("host vmnet8 {"),
       StmtLine(<<Word("fixed-address"), Addr(1)>>),
       EndLine >>

\* dhcpd.conf with a short range statement.
ConfShortRange ==
    << SectionLine(LowNet.addr, NetmaskOf(LowNet.plen)),
       StmtLine(<<Word("range"), Addr(4)>>),
       EndLine >>

ConfFiles == {ConfLow, ConfLowFull, ConfHigh, ConfNoSubnet, ConfShortRange}

Eth(section, conn, mac) ==
    << VmxLine(section, "present", "TRUE"),
       VmxLine(section, "connectionType", conn),
       VmxLine(section, "generatedAddress", mac) >>

\* The VMX files a directory scan can return.
VmxFiles ==
    { [path |-> "web.vmwarevm/web.vmx", stem |-> "web", lines |->
          <<VmxLine(None, "displayName", "alpha"), VmxNoise>>
          \o Eth("ethernet0", "nat", "00:0C:29:AA:BB:CC")
          \o Eth("ethernet1", "nat", "00:0C:29:DD:EE:FF")],
      [path |-> "db.vmwarevm/db.vmx", stem |-> "db", lines |->
          <<VmxLine(None, "displayName", "beta")>>
          \o Eth("ethernet0", "nat", "00:0C:29:AA:BB:CC")
          \o Eth("ethernet1", "hostonly", "00:0C:29:DD:EE:FF")
          \o <<VmxLine("scsi0", "present", "TRUE")>>],
      [path |-> "alpha.vmwarevm/alpha.vmx", stem |-> "alpha", lines |->
          Eth("ethernet0", "nat", "00:0C:29:AA:BB:CC")
          \o Eth("ethernet1", "nat", "00:0C:29:DD:EE:FF")],
      [path |-> "gw.vmwarevm/gw.vmx", stem |-> "gw", lines |->
          <<VmxLine(None, "displayName", "gamma"),
            VmxLine("ethernet0", "present", "TRUE"),
            VmxLine("ethernet0", "generatedAddress", "00:0C:29:AA:BB:CC")>>
          \o Eth("ethernet1", "hostonly", "00:0C:29:DD:EE:FF")],
      [path |-> "old.vmwarevm/old.vmx", stem |-> "old", lines |->
          <<VmxLine(None, "displayName", "delta")>>
          \o Eth("ethernet0", "bridged", "00:0C:29:AA:BB:CC")
          \o <<VmxLine("ethernet1", "connectionType", "nat"),
               VmxLine("ethernet1", "address", "00:0C:29:DD:EE:FF")>>] }

\* The orders in which a directory scan can return the files of S.
RECURSIVE Listings(_)
Listings(S) ==
    IF S = {} THEN { <<>> }
    ELSE UNION { { <<f>> \o rest : rest \in Listings(S \ {f}) } : f \in S }

InitMain ==
    /\ FindIdle
    /\ ParseIdle
    /\ \E dhcp1 \in DhcpAnswers, dhcp8 \in DhcpAnswers :
         fs_networking = NetworkingFile(dhcp1, dhcp8)
    /\ fs_conf = EmptyDict
    /\ fs_vmx = {}
    /\ clock = 0
    /\ run = 1
    /\ pc = "start"
    /\ MainStart
    /\ first_run = NoFirstRun

Fail(exc, at) ==
    /\ pc' = "failed"
    /\ error' = [exc |-> exc, at |-> at]

\* Lines 234-238: the networking file is read and parsed.
ReadNetworking ==
    /\ pc = "start"
    /\ LET ret == parse_networking(fs_networking)
       IN  /\ networks' = [order |-> ret.order, d |-> ret.d]
           /\ todo' = ret.order
           /\ IF ret.error # "" THEN Fail(ret.error, "networking")
              ELSE pc' = "networks" /\ error' = error
    /\ UNCHANGED <<findVars, parseVars, fileVars, clock, run, visited, opened, log,
                   vms, queue, dhcp_confs, stdout, first_run>>

\* Lines 240-258: one iteration over networks.items(); the dhcpd.conf of a
\* network has whatever content the file has when it is first read.
NetworkLoop ==
    /\ pc = "networks"
    /\ todo # <<>>
    /\ LET vmnet == Head(todo)
       IN  \E conf \in (IF vmnet \in DOMAIN fs_conf THEN {fs_conf[vmnet]} ELSE ConfFiles) :
             LET ret == process_network(vmnet, networks.d[vmnet], conf)
             IN  /\ networks' = [networks EXCEPT !.d[vmnet] = ret.info]
                 /\ fs_conf' = IF ret.opened THEN (vmnet :> conf) @@ fs_conf ELSE fs_conf
                 /\ opened' = IF ret.opened THEN opened \cup {vmnet} ELSE opened
                 /\ log' = log \cup ret.log
                 /\ visited' = visited \cup {vmnet}
                 /\ todo' = Tail(todo)
                 /\ IF ret.exc # "" THEN Fail(ret.exc, vmnet)
                    ELSE pc' = pc /\ error' = error
    /\ UNCHANGED <<findVars, parseVars, fs_networking, fs_vmx, clock, run,
                   vms, queue, dhcp_confs, stdout, first_run>>

\* Lines 261-264 and 267-269: the VMX files are listed and read, and the
\* loops over the sorted VMs and their sorted sections are entered. The
\* directory holds the same files in both runs; glob's order is arbitrary.
ReadVMs ==
    /\ pc = "networks"
    /\ todo = <<>>
    /\ \E files \in (IF run = 1 THEN SubsetsUpTo(VmxFiles, MaxVMs) ELSE {fs_vmx}) :
         \E listing \in Listings(files) :
            /\ fs_vmx' = files
            /\ vms' = [i \in 1..Len(listing) |-> VirtualMachine(listing[i])]
            /\ queue' = loop_items(vms', sorted_vms(vms'))
    /\ pc' = "assign"
    /\ UNCHANGED <<findVars, parseVars, fs_networking, fs_conf, clock, run, networks,
                   todo, visited, opened, log, dhcp_confs, stdout, error, first_run>>

\* Lines 270-285: one iteration of the loop over a VM's sections.
InterfaceLoop ==
    /\ pc = "assign"
    /\ queue # <<>>
    /\ LET item == Head(queue)
           ret == process_interface(vms[item.vm], item.section, networks.d, dhcp_confs)
       IN  /\ dhcp_confs' = ret.dhcp_confs
           /\ queue' = Tail(queue)
           /\ IF ret.exc # "" THEN Fail(ret.exc, vms[item.vm].hostname)
              ELSE pc' = pc /\ error' = error
    /\ UNCHANGED <<findVars, parseVars, fileVars, clock, run, networks, todo, visited,
                   opened, log, vms, stdout, first_run>>

\* Lines 287-291: the clock is read and everything is printed.
PrintConfigs ==
    /\ pc = "assign"
    /\ queue = <<>>
    /\ \E t \in clock..MaxClock :
         /\ clock' = t
         /\ stdout' = print_configs(isoformat_seconds(t), dhcp_confs,
                                    SortedKeys(DOMAIN dhcp_confs))
    /\ pc' = "done"
    /\ UNCHANGED <<findVars, parseVars, fileVars, run, networks, todo, visited, opened,
                   log, vms, queue, dhcp_confs, error, first_run>>

\* main() is run again on the same files.
RunAgain ==
    /\ run = 1
    /\ pc \in {"done", "failed"}
    /\ first_run' = [pc |-> pc, stdout |-> stdout, error |-> error, vms |-> vms]
    /\ run' = 2
    /\ pc' = "start"
    /\ networks' = [order |-> <<>>, d |-> EmptyDict]
    /\ todo' = <<>>
    /\ visited' = {}
    /\ opened' = {}
    /\ log' = {}
    /\ vms' = <<>>
    /\ queue' = <<>>
    /\ dhcp_confs' = EmptyDict
    /\ stdout' = <<>>
    /\ error' = NoError
    /\ UNCHANGED <<findVars, parseVars, fileVars, clock>>

NextMain ==
    \/ ReadNetworking
    \/ NetworkLoop
    \/ ReadVMs
    \/ InterfaceLoop
    \/ PrintConfigs
    \/ RunAgain

SpecMain == InitMain /\ [][NextMain]_vars

\* The addresses a network covers.
AddrsOf(n) == { a \in Addresses : n.addr <= a /\ a < n.addr + 2^(max_prefixlen - n.plen) }

\* C1: whenever find_subnet returns a sub-network, it lies inside the parent
\* network and shares no address with any reserved entry.
C1_NoOverlap ==
    (f_pc = "returned" /\ f_result # NoSubnet) =>
        /\ f_result \in Networks
        /\ AddrsOf(f_result) \subseteq AddrsOf(f_network)
        /\ \A x \in f_reserved : AddrsOf(f_result) \cap AddrsOf(x) = {}

C1_Witness ==
    /\ f_pc = "returned"
    /\ f_result # NoSubnet
    /\ f_reserved # {}
    /\ \E x \in f_reserved : AddrsOf(x) \cap AddrsOf(f_network) # {}

\* The non-overlapping candidates of the tested prefix lengths.
Candidates(network, reserved) ==
    { s \in Networks :
        /\ network.plen + 1 <= s.plen /\ s.plen <= max_prefixlen - 2
        /\ AddrsOf(s) \subseteq AddrsOf(network)
        /\ \A x \in reserved : AddrsOf(s) \cap AddrsOf(x) = {} }

\* C2: find_subnet is the first-fit search: the result is the candidate of
\* smallest prefix length and, among those, of lowest address; it is never
\* the parent nor a block of the two most specific sizes; it is empty
\* exactly when no candidate of a tested prefix length is free.
C2_FirstFit ==
    f_pc = "returned" =>
        LET C == Candidates(f_network, f_reserved)
        IN  /\ (f_result = NoSubnet) <=> (C = {})
            /\ f_result # NoSubnet =>
                 /\ f_result \in C
                 /\ \A s \in C : \/ f_result.plen < s.plen
                                 \/ f_result.plen = s.plen /\ f_result.addr <= s.addr
                 /\ f_result # f_network
                 /\ f_result.plen <= max_prefixlen - 2

C2_Witness ==
    /\ f_pc = "returned"
    /\ f_result # NoSubnet
    /\ f_result.plen > f_network.plen + 1
    /\ \E s \in Candidates(f_network, f_reserved) :
         s.plen = f_result.plen /\ s.addr > f_result.addr

\* A statement line of one of the three handled forms.
HandledForm(line) ==
    /\ line.cls = "line"
    /\ Len(line.parts) >= 2
    /\ \/ /\ line.parts[1].w = "range"
          /\ Len(line.parts) = 3
          /\ is_address(line.parts[2]) /\ is_address(line.parts[3])
       \/ /\ line.parts[1].w = "option"
          /\ line.parts[2].w \in ReservingOptions
          /\ \A i \in 3..Len(line.parts) : is_address(line.parts[i])
       \/ /\ line.parts[1].w = "option"
          /\ line.parts[2].w = "domain-name"
          /\ Len(line.parts) = 3

\* C7: inside a subnet block every line that is not of a handled form is
\* ignored: no error is raised and reserved set and domain stay as they were.
C7_OtherLinesIgnored ==
    [][ ( /\ p_pc = "reading"
          /\ p_state.section = "subnet"
          /\ Len(p_stream') = Len(p_stream) + 1
          /\ ~HandledForm(p_stream'[Len(p_stream')]) )
        => ( /\ p_pc' # "raised"
             /\ p_state'.results = p_state.results ) ]_vars

\* Line i of the consumed stream lies in a subnet block: a header precedes
\* it with no closing line in between.
InBlock(i) ==
    \E j \in 1..(i - 1) :
        /\ p_stream[j].cls = "section"
        /\ \A k \in (j + 1)..(i - 1) : p_stream[k].cls # "end"

\* The headers read at top level, which open a block.
Openers == { j \in 1..Len(p_stream) : p_stream[j].cls = "section" /\ ~InBlock(j) }

LastOpener == CHOOSE j \in Openers : \A k \in Openers : k <= j

\* The statement lines of the block the last opener opened.
BlockStatements ==
    { i \in (LastOpener + 1)..Len(p_stream) :
        /\ p_stream[i].cls = "line"
        /\ \A k \in (LastOpener + 1)..(i - 1) : p_stream[k].cls # "end" }

\* What one statement adds to an empty reserved set.
Contribution(line) ==
    LET blank == [section |-> "subnet", error |-> "",
                  results |-> ("subnet" :> [net |-> 0, mask |-> 0, network |-> NoSubnet,
                                            reserved |-> {}, domain |-> None])]
    IN  parse_statement(blank, line.parts).results.subnet

\* C9: only statements between a subnet header and the closing line of its
\* block change the results; lines at top level and in blocks the parser
\* does not know change nothing; after the closing line the parser is at
\* top level again and recognises the next header.
C9_BlockScoped ==
    p_pc \in {"reading", "returned"} =>
        /\ (p_state.section = "subnet") <=> InBlock(Len(p_stream) + 1)
        /\ HasSubnet(p_state.results) <=> (Openers # {})
        /\ Openers # {} =>
             LET mdict == p_state.results.subnet
                 doms == { i \in BlockStatements : Contribution(p_stream[i]).domain # None }
             IN  /\ mdict.network =
                        ip_network_pair(p_stream[LastOpener].net, p_stream[LastOpener].mask)
                 /\ mdict.reserved =
                        UNION { Contribution(p_stream[i]).reserved : i \in BlockStatements }
                 /\ mdict.domain =
                        IF doms = {} THEN None
                        ELSE Contribution(p_stream[CHOOSE i \in doms : \A k \in doms : k <= i]).domain

\* A block with a statement was closed, a statement followed at top level,
\* and a later header was recognised.
C9_Witness ==
    /\ p_pc = "reading"
    /\ Len(p_stream) >= 4
    /\ p_state.section = "subnet"
    /\ Cardinality(Openers) = 2
    /\ \E i \in 1..Len(p_stream) : p_stream[i].cls = "line" /\ InBlock(i) /\ i < LastOpener
    /\ p_state.results.subnet.reserved = {}

\* ---------------------------------------------------------------------
\* Properties of main().
\* ---------------------------------------------------------------------

Vmnets == {"vmnet1", "vmnet8"}

\* The interfaces of the listed VMs that claim host network vmnet: ethernet
\* sections whose connection type maps to it.
Claimants(vmnet) ==
    { x \in [vm : 1..Len(vms), section : {"ethernet0", "ethernet1"}] :
        /\ x.section \in DOMAIN vms[x.vm].info
        /\ "connectionType" \in DOMAIN vms[x.vm].info[x.section]
        /\ \E conn \in DOMAIN NETWORKS :
             /\ vms[x.vm].info[x.section]["connectionType"] = PyStr(Word(conn))
             /\ NETWORKS[conn] = vmnet }

\* Processing order: VMs ascending by display name (equal names in the
\* order they were listed), sections ascending by name within a VM.
Before(x, y) ==
    \/ StrRank(vms[x.vm].hostname) < StrRank(vms[y.vm].hostname)
    \/ vms[x.vm].hostname = vms[y.vm].hostname /\ x.vm < y.vm
    \/ x.vm = y.vm /\ StrRank(x.section) < StrRank(y.section)

\* The claimant of vmnet that k other claimants of vmnet precede.
Kth(vmnet, k) ==
    CHOOSE x \in Claimants(vmnet) :
        Cardinality({ y \in Claimants(vmnet) : Before(y, x) }) = k

\* The free sub-network stored on a network, NoSubnet when none is.
FreeBlock(vmnet) ==
    IF vmnet \in DOMAIN networks.d /\ "network_fixed" \in DOMAIN networks.d[vmnet]
    THEN networks.d[vmnet]["network_fixed"]
    ELSE NoSubnet

\* C3: the k-th interface claiming a network, in processing order, gets the
\* address at offset k of that network's free block, the first one the
\* block's first address; the counters of the networks are independent; a
\* run that completes has served every claimant.
C3_GapFreeInNameOrder ==
    pc \in {"assign", "done", "failed"} =>
        \A vmnet \in DOMAIN dhcp_confs :
            /\ Len(dhcp_confs[vmnet]) <= Cardinality(Claimants(vmnet))
            /\ pc = "done" => Len(dhcp_confs[vmnet]) = Cardinality(Claimants(vmnet))
            /\ \A k \in 1..Len(dhcp_confs[vmnet]) :
                 LET x == Kth(vmnet, k - 1)
                     stanza == dhcp_confs[vmnet][k]
                 IN  /\ stanza.host = vms[x.vm].hostname
                     /\ stanza.extra[2] = <<"dev", x.section>>
                     /\ stanza.extra[3] = <<"net", vmnet>>
                     /\ stanza.ip = FreeBlock(vmnet).addr + (k - 1)

\* Both networks were served, from VMs that glob listed out of name order.
C3_Witness ==
    /\ pc = "done"
    /\ Len(vms) >= 2
    /\ StrLess(vms[2].hostname, vms[1].hostname)
    /\ "vmnet1" \in DOMAIN dhcp_confs /\ Len(dhcp_confs["vmnet1"]) >= 1
    /\ "vmnet8" \in DOMAIN dhcp_confs /\ Len(dhcp_confs["vmnet8"]) >= 3

\* The claimants of vmnet the loops have visited.
Visited(vmnet) ==
    { x \in Claimants(vmnet) :
        \A i \in 1..Len(queue) : queue[i] # [vm |-> x.vm, section |-> x.section] }

Capacity(vmnet) ==
    IF FreeBlock(vmnet) = NoSubnet THEN 0
    ELSE Cardinality(AddrsOf(FreeBlock(vmnet)))

\* C4: the usage counter never exceeds the capacity of the free block:
\* while the run has not failed, every claimant visited was given an
\* address of the free block that no other claimant has, so a network
\* without a free block or with more claimants than addresses fails the
\* run at the first claimant it cannot serve.
C4_CounterWithinCapacity ==
    pc \in {"assign", "done"} =>
        \A vmnet \in Vmnets :
            LET given == confs_of(dhcp_confs, vmnet)
            IN  /\ Len(given) = Cardinality(Visited(vmnet))
                /\ Len(given) <= Capacity(vmnet)
                /\ \A k \in 1..Len(given) : given[k].ip \in AddrsOf(FreeBlock(vmnet))
                /\ \A j, k \in 1..Len(given) : j # k => given[j].ip # given[k].ip

\* The run failed at the claimant after the last address of a free block.
C4_Witness ==
    /\ pc = "failed"
    /\ error.exc = "IndexError"
    /\ \E vmnet \in DOMAIN dhcp_confs :
         /\ Len(dhcp_confs[vmnet]) = Capacity(vmnet)
         /\ Capacity(vmnet) > 0
         /\ Cardinality(Claimants(vmnet)) > Capacity(vmnet)

\* What the dhcpd.conf of a network declares.
Lease(vmnet) == parse_dhcpd_conf(fs_conf[vmnet])

\* The network was visited with DHCP enabled and its dhcpd.conf declares a
\* network other than the one the networking file declares.
Mismatch(vmnet) ==
    /\ vmnet \in visited
    /\ vmnet \in opened
    /\ Lease(vmnet).error = ""
    /\ HasSubnet(Lease(vmnet).results)
    /\ "network" \in DOMAIN networks.d[vmnet]
    /\ networks.d[vmnet]["network"] # Lease(vmnet).results["subnet"].network

\* C5: a mismatch between the declared network and the lease file's
\* network is not fatal: a warning is logged, the run does not fail there,
\* and the free sub-network is found in the lease file's network.
C5_MismatchNonFatal ==
    \A vmnet \in Vmnets :
        Mismatch(vmnet) =>
            /\ ~(pc = "failed" /\ error.at = vmnet)
            /\ [level |-> "WARNING", about |-> vmnet] \in log
            /\ "network_fixed" \in DOMAIN networks.d[vmnet]
            /\ networks.d[vmnet]["network_fixed"] =
                   find_subnet(Lease(vmnet).results["subnet"].network,
                               Lease(vmnet).results["subnet"].reserved)

\* The output with the time of the header lines blanked.
Untimed(out) == [i \in 1..Len(out) |-> [out[i] EXCEPT !.now = -1]]

\* The directory scan listed equally named VMs in the same order in both runs.
SameNameOrder ==
    \/ vms = first_run.vms
    \/ \A i, j \in 1..Len(vms) : i # j => vms[i].hostname # vms[j].hostname

\* C6 as stated: the second run on unchanged files prints exactly what the
\* first run printed, header lines included.
C6_ByteIdentical ==
    (run = 2 /\ pc = "done" /\ vms = first_run.vms) => stdout = first_run.stdout

\* C6, amended: the second run ends as the first did and prints the same
\* lines in the same order, up to the time in the header lines, which is
\* the one clock reading of each run.
C6_IdenticalUpToTime ==
    (run = 2 /\ pc \in {"done", "failed"} /\ SameNameOrder) =>
        /\ pc = first_run.pc
        /\ Untimed(stdout) = Untimed(first_run.stdout)
        /\ \A i, j \in 1..Len(stdout) :
             (stdout[i].line = "header" /\ stdout[j].line = "header")
                 => stdout[i].now = stdout[j].now

\* The second run listed the VMs in another order, a second later.
C6_Witness ==
    /\ run = 2
    /\ pc = "done"
    /\ vms # first_run.vms
    /\ Len(stdout) >= 3
    /\ stdout # first_run.stdout
    /\ Untimed(stdout) = Untimed(first_run.stdout)

\* `info['dhcp'] is True` for a network of the list.
DhcpEnabled(vmnet) ==
    "dhcp" \in DOMAIN networks.d[vmnet] /\ networks.d[vmnet]["dhcp"] = PyBool(TRUE)

\* C8: a network that is not DHCP-enabled (dhcp false, a raw string, or no
\* DHCP line) is skipped without error: the run does not fail there, its
\* dhcpd.conf is not opened and no free sub-network or domain is stored.
C8_NonDhcpSkipped ==
    \A vmnet \in visited :
        ~DhcpEnabled(vmnet) =>
            /\ ~(pc = "failed" /\ error.at = vmnet)
            /\ vmnet \notin opened
            /\ "network_fixed" \notin DOMAIN networks.d[vmnet]
            /\ "domain" \notin DOMAIN networks.d[vmnet]

\* The stanzas printed for a network.
Printed(vmnet) ==
    { i \in 1..Len(stdout) : stdout[i].line = "host" /\ stdout[i].extra[3] = <<"net", vmnet>> }

\* C10: in a run that completes every printed address lies in the network
\* the lease file declares, in none of its reserved entries, and is printed
\* once for its network.
C10_PrintedAddressesFree ==
    pc = "done" =>
        \A vmnet \in Vmnets :
            \A i \in Printed(vmnet) :
                /\ vmnet \in DOMAIN fs_conf
                /\ stdout[i].ip \in AddrsOf(Lease(vmnet).results["subnet"].network)
                /\ \A x \in Lease(vmnet).results["subnet"].reserved :
                     stdout[i].ip \notin AddrsOf(x)
                /\ \A j \in Printed(vmnet) : j # i => stdout[j].ip # stdout[i].ip

C10_Witness ==
    /\ pc = "done"
    /\ Cardinality(Printed("vmnet8")) >= 2
    /\ Cardinality(Printed("vmnet1")) >= 1
    /\ Lease("vmnet8").results["subnet"].reserved # {}

====
